---- MODULE Spec2Model ----
(***************************************************************************)
(* Optimistic delete / undo coordination of scribe: the pending-delete     *)
(* store (stores/pendingDelete.ts), its deletion queue, the grace timers   *)
(* of the JavaScript runtime and the history view that calls the store.    *)
(*                                                                         *)
(* One action is one macrotask of the event loop (a click, a timer         *)
(* callback, the settlement of an IPC call) together with every microtask  *)
(* it triggers, since no other macrotask can run in between.               *)
(***************************************************************************)
EXTENDS Integers, Sequences, FiniteSets, TLC

\* ---------------------------------------------------------------- bounds --
MaxItem == 3            \* Spec, SpecDeep: transcriptions 1..MaxItem exist in the backend
MaxSchedules == 3       \* Spec: scheduleDelete calls explored in one behaviour
MaxMounts == 1          \* Spec: mounts of the history view explored in one behaviour
MaxQueueItem == 4       \* SpecQueue: transcriptions 1..MaxQueueItem exist in the backend
MaxQueueSchedules == 4  \* SpecQueue: scheduleDelete calls (the view stays mounted)
MaxDeepSchedules == 4   \* SpecDeep: scheduleDelete calls
MaxDeepMounts == 2      \* SpecDeep: mounts of the history view
MaxApiItem == 2         \* SpecApi: transcriptions 1..MaxApiItem exist in the backend
MaxApiSchedules == 2    \* SpecApi: scheduleDelete calls
MaxApiMounts == 2       \* SpecApi: mounts of the history view
MaxLiveItem == 3        \* SpecLive: transcriptions 1..MaxLiveItem exist in the backend
MaxLiveSchedules == 3   \* SpecLive: scheduleDelete calls
MaxRestoreItem == 4     \* SpecRestore: transcriptions 1..MaxRestoreItem
MaxRestoreLen == 4      \* SpecRestore: restoreTranscription is applied to lists up to this length
MaxBroadcastItem == 2   \* SpecBroadcast: transcriptions 1..MaxBroadcastItem exist in the backend
MaxBroadcastSchedules == 2  \* SpecBroadcast: scheduleDelete calls
MaxNotifyItem == 4      \* SpecNotify: transcriptions 1..MaxNotifyItem can come to exist
MaxNotifyLen == 4       \* SpecNotify: the list grows up to this length

HISTORY_VIEW == "history-view"

VARIABLES
    pendingDelete,       \* content of the pendingDelete ref: {} is null, else one PendingDelete
    timers,              \* timers armed in the runtime: [timeoutId, transcription]
    nextTimeoutId,       \* next handle setTimeout returns
    deletionInProgress,  \* ticket of the promise the chain currently ends in (0: Promise.resolve())
    links,               \* unsettled promises of the chain: [ticket, prev, id, by, invoked]
    awaiting,            \* scheduleDelete calls suspended at the await:
                         \*   [transcription, ticket, previousId, cleared (the timer it cancelled)]
    restoreCallbacks,    \* the Map: set of [key, handler], one entry per key
    db,                  \* ids the backend still stores
    transcriptions,      \* list of the current view instance
    viewFile,            \* which of the two history views the application was built with
    instance,            \* number of the current view instance (0: never mounted)
    mounted,             \* TRUE while the current view instance is mounted
    fetching,            \* view instances whose onMounted is suspended in fetchHistory
    scheduled,           \* number of scheduleDelete calls made so far
    installedAfter,      \* the id the scheduleDelete call that filled the slot superseded (0: none)
    owed,                \* per id: scheduleDelete calls of it neither undone nor submitted yet
    submitLog,           \* ids in the order they were passed to queueDeletion
    commitLog,           \* delete_transcription calls in the order they were invoked: [ticket, id]
    cycleLog,            \* per submission, the scheduling cycle it was made for: the handle of
                         \*   the timer that scheduleDelete call armed
    undone,              \* the scheduling cycles undoDelete returned (timer handles)
    lastScheduled,       \* the item of the scheduleDelete call, when that call is the last
                         \*   store operation invoked and no timer of the item has fired (else 0)
    latest,              \* the handler of the last registerCallbacks call of the view's key
                         \*   (0: none, or the key was unregistered since)
    lastOp               \* the operation the last step performed, with what it returned
                         \*   and the restore handlers it invoked

vars == <<pendingDelete, timers, nextTimeoutId, deletionInProgress, links, awaiting,
          restoreCallbacks, db, transcriptions, viewFile, instance, mounted, fetching,
          scheduled, installedAfter, owed, submitLog, commitLog, cycleLog, undone, latest,
          lastScheduled, lastOp>>

NEW_VIEW == "unnamed/part_000"
OLD_VIEW == "src/views/HistoryView.vue"

\* ------------------------------------------------------------ Transcription --
\* getTime() of created_at: items 1,2 share a timestamp, 3,4 the next one, ...
CreatedAt(id) == (id + 1) \div 2

\* The predicate of findIndex in restoreTranscription: t sorts after the restored item.
SortsAfter(t, restored) ==
    IF CreatedAt(t) # CreatedAt(restored)
    THEN CreatedAt(t) < CreatedAt(restored)
    ELSE t < restored

\* Array.prototype.findIndex, 1-based; 0 stands for -1. `matching` is the set
\* of elements the predicate accepts.
FindIndex(list, matching) ==
    IF \E i \in 1..Len(list) : list[i] \in matching
    THEN CHOOSE i \in 1..Len(list) :
            list[i] \in matching /\ \A j \in 1..(i - 1) : list[j] \notin matching
    ELSE 0

\* list.splice(index, 1)
SpliceOut(list, index) ==
    SubSeq(list, 1, index - 1) \o SubSeq(list, index + 1, Len(list))

\* Mutant: the item is inserted behind the element found, not before it.
SpliceInAfter(list, index, x) ==
    SubSeq(list, 1, index) \o <<x>> \o SubSeq(list, index + 1, Len(list))

\* list.splice(index, 0, x)
SpliceIn(list, index, x) ==
    SubSeq(list, 1, index - 1) \o <<x>> \o SubSeq(list, index, Len(list))

\* Mutant: the position is found by created_at alone, without the tiebreaker on id.
restoreTranscriptionByTimestamp(list, transcription) ==
    LET Older == { t \in { list[i] : i \in 1..Len(list) } :
                        CreatedAt(t) < CreatedAt(transcription) }
        insertIndex == FindIndex(list, Older)
    IN  IF insertIndex = 0
        THEN Append(list, transcription)
        ELSE SpliceIn(list, insertIndex, transcription)

restoreTranscription(list, transcription) ==
    LET SortsAfterRestored == { t \in { list[i] : i \in 1..Len(list) } :
                                    SortsAfter(t, transcription) }
        insertIndex == FindIndex(list, SortsAfterRestored)
    IN  IF insertIndex = 0
        THEN Append(list, transcription)
        ELSE SpliceIn(list, insertIndex, transcription)

\* get_history: the stored transcriptions, newest first.
RECURSIVE GetHistory(_)
GetHistory(stored) ==
    IF stored = {} THEN <<>>
    ELSE LET newest == CHOOSE x \in stored : \A y \in stored \ {x} : SortsAfter(y, x)
         IN  <<newest>> \o GetHistory(stored \ {newest})

\* --------------------------------------------------------------- the store --
\* The state after the module is loaded, the backend storing `items`.
InitWith(items) ==
    /\ pendingDelete = {}
    /\ timers = {}
    /\ nextTimeoutId = 1
    /\ deletionInProgress = 0
    /\ links = {}
    /\ awaiting = {}
    /\ restoreCallbacks = {}
    /\ db = items
    /\ transcriptions = <<>>
    /\ viewFile \in {NEW_VIEW, OLD_VIEW}
    /\ instance = 0
    /\ mounted = FALSE
    /\ fetching = {}
    /\ scheduled = 0
    /\ installedAfter = 0
    /\ owed = [x \in items |-> 0]
    /\ submitLog = <<>>
    /\ commitLog = <<>>
    /\ cycleLog = <<>>
    /\ undone = {}
    /\ latest = 0
    /\ lastScheduled = 0
    /\ lastOp = [op |-> "init"]

Init == InitWith(1..MaxItem)

\* Every transcription the backend stored at the start.
Items == DOMAIN owed

\* The promise with this ticket has settled (ticket 0 is Promise.resolve()).
Resolved(chain, ticket) == \A l \in chain : l.ticket # ticket

\* Mutant: the deletion is chained to a fresh Promise.resolve(), not to the chain.
ChainedToResolved(inProgress) == 0

\* The promise queueDeletion chains the new deletion to: deletionInProgress.then(...)
ChainedTo(inProgress) == inProgress

\* permanentlyDelete(id): rejects (re-throws) when delete_transcription fails.
permanentlyDelete(ok) == IF ok THEN "fulfilled" ELSE "rejected"

\* Mutant: the catch is missing (or re-throws), so a rejection stays a rejection.
CatchMissing(outcome) == outcome

\* .catch((e) => { console.error(...) }): the handler returns, so the promise fulfils.
CatchAndLog(outcome) == "fulfilled"

\* Mutant: the promise rejects whatever delete_transcription answered.
DeletionRejecting(ok) == "rejected"

\* The promise queueDeletion returns: then(() => permanentlyDelete(id)).catch(log)
Deletion(ok) == CatchAndLog(permanentlyDelete(ok))

\* Mutant: the new PendingDelete is added to the slot without releasing the old one.
SetPendingKeepingOld(current, transcription, timeoutId) ==
    current \cup {[transcription |-> transcription, timeoutId |-> timeoutId]}

\* pendingDelete.value = { transcription, timeoutId }
SetPending(current, transcription, timeoutId) ==
    {[transcription |-> transcription, timeoutId |-> timeoutId]}

\* Mutant: the superseded item stays in the slot while its deletion is awaited.
ClearSupersededForgotten(current) == current

\* pendingDelete.value = null before the superseded item is queued
ClearSuperseded(current) == {}

\* Mutant: the timer callback leaves the slot as it is after queueing the deletion.
ClearExpiredForgotten(current) == current

\* pendingDelete.value = null at the end of the timer callback
ClearExpired(current) == {}

\* setTimeout(callback, UNDO_TIMEOUT_MS), the callback closing over transcription
setTimeout(armed, timeoutId, transcription) ==
    armed \cup {[timeoutId |-> timeoutId, transcription |-> transcription]}

\* Mutant: the timer is not cancelled.
clearTimeoutForgotten(armed, timeoutId) == armed

\* clearTimeout(timeoutId)
clearTimeout(armed, timeoutId) == {t \in armed : t.timeoutId # timeoutId}

\* callback(transcription): restoreTranscription of a view instance (a handler >= 1)
\* returns; of the handlers other components register (negative), the odd ones throw.
CallOutcome(handler) == IF handler \in {-1, -3} THEN "threw" ELSE "returned"

\* Mutant: the call of a handler is not wrapped in try/catch.
TryCatchMissing(outcome) == outcome

\* try { callback(transcription) } catch (e) { console.error(...) }
TryCatch(outcome) == "returned"

\* restoreCallbacks.forEach(callback => { try ... catch ... }): the calls made. An
\* exception that escapes a call ends the iteration.
RECURSIVE ForEachCallback(_, _)
ForEachCallback(callbacks, transcription) ==
    IF callbacks = {} THEN <<>>
    ELSE LET c == CHOOSE x \in callbacks : TRUE
         IN  <<[handler |-> c.handler, transcription |-> transcription]>>
             \o IF TryCatch(CallOutcome(c.handler)) = "returned"
                THEN ForEachCallback(callbacks \ {c}, transcription)
                ELSE <<>>

\* The list of the current view instance after the handlers in `calls` ran: only the
\* handler of the mounted instance changes the list that is on screen.
RECURSIVE AfterCalls(_, _)
AfterCalls(list, calls) ==
    IF calls = <<>> THEN list
    ELSE AfterCalls(IF mounted /\ Head(calls).handler = instance
                    THEN restoreTranscription(list, Head(calls).transcription)
                    ELSE list,
                    Tail(calls))

\* Mutant: the deletion of a superseded item is not chained: delete_transcription is
\* invoked for it at once, as scheduleDelete did before the queue existed.
queueDeletionUnchained(id, by) ==
    LET prev == IF by = "superseded" THEN 0 ELSE ChainedTo(deletionInProgress)
        link == [ticket |-> deletionInProgress + 1, prev |-> prev, id |-> id, by |-> by,
                 invoked |-> Resolved(links, prev)]
    IN  /\ links' = links \cup {link}
        /\ deletionInProgress' = link.ticket
        /\ submitLog' = Append(submitLog, id)
        /\ commitLog' = IF link.invoked
                        THEN Append(commitLog, [ticket |-> link.ticket, id |-> id])
                        ELSE commitLog

\* queueDeletion(id): a new link chained to deletionInProgress; its then-callback runs
\* (delete_transcription is invoked) at once when that promise has already settled.
queueDeletion(id, by) ==
    LET prev == ChainedTo(deletionInProgress)
        link == [ticket |-> deletionInProgress + 1, prev |-> prev, id |-> id, by |-> by,
                 invoked |-> Resolved(links, prev)]
    IN  /\ links' = links \cup {link}
        /\ deletionInProgress' = link.ticket
        /\ submitLog' = Append(submitLog, id)
        /\ commitLog' = IF link.invoked
                        THEN Append(commitLog, [ticket |-> link.ticket, id |-> id])
                        ELSE commitLog

\* handleDelete(id) of the view, which calls scheduleDelete(transcription) up to its
\* first await (or to its end when nothing is pending).
HandleDelete(id, maxSchedules) ==
    LET IsId == { id }
        index == FindIndex(transcriptions, IsId)
    IN  /\ mounted
        /\ scheduled < maxSchedules
        /\ index # 0
        /\ scheduled' = scheduled + 1
        /\ lastScheduled' = id
        /\ transcriptions' = SpliceOut(transcriptions, index)
        /\ IF pendingDelete # {}
           THEN \E p \in pendingDelete :
                /\ timers' = clearTimeout(timers, p.timeoutId)
                /\ pendingDelete' = ClearSuperseded(pendingDelete)
                /\ queueDeletion(p.transcription, "superseded")
                /\ cycleLog' = Append(cycleLog, p.timeoutId)
                /\ awaiting' = awaiting \cup
                       {[transcription |-> id, ticket |-> deletionInProgress + 1,
                         previousId |-> p.transcription, cleared |-> p.timeoutId]}
                /\ owed' = IF id = p.transcription THEN owed
                           ELSE [owed EXCEPT ![id] = @ + 1, ![p.transcription] = @ - 1]
                /\ UNCHANGED nextTimeoutId
                /\ installedAfter' = 0
                /\ lastOp' = [op |-> "scheduleDelete", transcription |-> id,
                              superseded |-> p.transcription, before |-> transcriptions]
           ELSE /\ timers' = setTimeout(timers, nextTimeoutId, id)
                /\ nextTimeoutId' = nextTimeoutId + 1
                /\ pendingDelete' = SetPending(pendingDelete, id, nextTimeoutId)
                /\ owed' = [owed EXCEPT ![id] = @ + 1]
                /\ installedAfter' = 0
                /\ UNCHANGED <<deletionInProgress, links, awaiting, submitLog, commitLog,
                               cycleLog>>
                /\ lastOp' = [op |-> "scheduleDelete", transcription |-> id, superseded |-> 0,
                              before |-> transcriptions]
        /\ UNCHANGED <<restoreCallbacks, db, viewFile, instance, mounted, fetching, undone,
                       latest>>

\* A comparison that ignores the id: the callback acts whenever anything is pending.
IsPendingAny(pending, id) == pending # {}

\* pendingDelete.value?.transcription.id === transcription.id (line 73).
IsPending(pending, id) == \E p \in pending : p.transcription = id

\* A grace timer fires. Every timer has the same delay (UNDO_TIMEOUT_MS), so armed
\* timers fire in the order they were set. The callback of lines 72-88 runs.
TimerFires ==
    \E t \in timers :
        LET matches == IsPending(pendingDelete, t.transcription)
        IN  /\ \A u \in timers : u.timeoutId >= t.timeoutId
            /\ timers' = timers \ {t}
            /\ lastScheduled' = IF t.transcription = lastScheduled THEN 0 ELSE lastScheduled
            /\ IF matches
               THEN /\ queueDeletion(t.transcription, "timeout")
                    /\ cycleLog' = Append(cycleLog, t.timeoutId)
                    /\ pendingDelete' = ClearExpired(pendingDelete)
                    /\ installedAfter' = 0
                    /\ owed' = [owed EXCEPT ![t.transcription] = @ - 1]
               ELSE UNCHANGED <<pendingDelete, installedAfter, deletionInProgress, links, owed,
                                submitLog, commitLog, cycleLog>>
            /\ lastOp' = [op |-> "timeout", transcription |-> t.transcription,
                          timeoutId |-> t.timeoutId, queued |-> matches,
                          pending |-> pendingDelete, after |-> installedAfter]
            /\ UNCHANGED <<nextTimeoutId, awaiting, restoreCallbacks, db, transcriptions,
                           viewFile, instance, mounted, fetching, scheduled, undone, latest>>

\* The links whose then-callback runs when the promise `ticket` settles, oldest first.
RECURSIVE Continuations(_, _)
Continuations(chain, ticket) ==
    LET ready == {l \in chain : l.prev = ticket /\ ~l.invoked}
    IN  IF ready = {} THEN <<>>
        ELSE LET first == CHOOSE l \in ready : \A m \in ready : m.ticket >= l.ticket
             IN  <<first>> \o Continuations(chain \ {first}, ticket)

\* The delete_transcription calls the then-callbacks of these links make.
Invocations(ready) == [i \in 1..Len(ready) |-> [ticket |-> ready[i].ticket, id |-> ready[i].id]]

\* The tickets of the promises that reject because the promise `tickets` rejected:
\* a then-callback chained to a rejected promise is skipped and its promise rejects too.
RECURSIVE Cascade(_, _)
Cascade(chain, tickets) ==
    LET more == {m \in chain : m.prev \in tickets /\ ~m.invoked /\ m.ticket \notin tickets}
    IN  IF more = {} THEN tickets
        ELSE Cascade(chain, tickets \cup {m.ticket : m \in more})

\* The restore calls the catch of the timer callback (lines 75-85) makes for the
\* rejected promises among `chain` that the timer callback queued, oldest first.
RECURSIVE RestoreRejected(_, _, _)
RestoreRejected(chain, tickets, callbacks) ==
    LET mine == {l \in chain : l.ticket \in tickets /\ l.by = "timeout"}
    IN  IF mine = {} THEN <<>>
        ELSE LET first == CHOOSE l \in mine : \A m \in mine : m.ticket >= l.ticket
             IN  ForEachCallback(callbacks, first.id)
                 \o RestoreRejected(chain \ {first}, tickets, callbacks)

\* delete_transcription settles for the invoked link l, with success (ok) or failure.
\* In the same turn of the event loop the promise of the link settles and its reactions
\* run. Fulfilled: a scheduleDelete awaiting it resumes (lines 72-90) and the next
\* deletion of the chain is invoked. Rejected: the deletions chained to it reject
\* without being invoked, a scheduleDelete awaiting any of them throws, and the catch
\* of the timer callback restores (lines 75-85).
Settle(l, ok) ==
    LET outcome == Deletion(ok)
        rejected == IF outcome = "rejected" THEN Cascade(links, {l.ticket}) ELSE {}
        resumed == {c \in awaiting : c.ticket = l.ticket /\ outcome = "fulfilled"}
        thrown == {c \in awaiting : c.ticket \in rejected}
        calls == RestoreRejected(links, rejected, restoreCallbacks)
        next == IF outcome = "fulfilled" THEN Continuations(links, l.ticket) ELSE <<>>
    IN  /\ l \in links
        /\ l.invoked
        /\ db' = IF ok THEN db \ {l.id} ELSE db
        /\ links' = {IF \E i \in 1..Len(next) : next[i] = m
                     THEN [m EXCEPT !.invoked = TRUE] ELSE m :
                     m \in {x \in links : x # l /\ x.ticket \notin rejected}}
        /\ commitLog' = commitLog \o Invocations(next)
        /\ awaiting' = (awaiting \ resumed) \ thrown
        /\ IF resumed # {}
           THEN \E c \in resumed :
                /\ timers' = setTimeout(timers, nextTimeoutId, c.transcription)
                /\ nextTimeoutId' = nextTimeoutId + 1
                /\ pendingDelete' = SetPending(pendingDelete, c.transcription, nextTimeoutId)
                /\ installedAfter' = c.previousId
           ELSE UNCHANGED <<timers, nextTimeoutId, pendingDelete, installedAfter>>
        /\ transcriptions' = AfterCalls(transcriptions, calls)
        /\ lastOp' = [op |-> "settle", ticket |-> l.ticket, id |-> l.id, ok |-> ok, by |-> l.by,
                      resumed |-> resumed, thrown |-> thrown, calls |-> calls,
                      registered |-> restoreCallbacks]
        /\ UNCHANGED <<deletionInProgress, restoreCallbacks, viewFile, instance, mounted,
                       fetching, scheduled, owed, submitLog, cycleLog, undone, latest,
                       lastScheduled>>

\* Mutant: the check for an empty slot is missing, so reading timeoutId of null
\* throws (-1) instead of null being returned.
UndoResultUnchecked(current) ==
    IF current = {} THEN -1 ELSE (CHOOSE p \in current : TRUE).transcription

\* What undoDelete returns: null (0) when nothing is pending, else the pending item.
UndoResult(current) ==
    IF current = {} THEN 0 ELSE (CHOOSE p \in current : TRUE).transcription

\* undoDelete() of the store; handleUndo of the older view restores the returned item
\* itself as well.
undoDelete ==
    IF pendingDelete = {}
    THEN /\ lastOp' = [op |-> "undoDelete", returned |-> UndoResult(pendingDelete),
                        calls |-> <<>>,
                        pending |-> pendingDelete, after |-> lastScheduled,
                        original |-> IF lastOp.op = "scheduleDelete"
                                     THEN lastOp.before ELSE <<>>]
         /\ UNCHANGED <<pendingDelete, timers, installedAfter, owed, transcriptions, undone>>
    ELSE \E p \in pendingDelete :
         LET restored == p.transcription
             calls == ForEachCallback(restoreCallbacks, restored)
             list == AfterCalls(transcriptions, calls)
         IN  /\ timers' = clearTimeout(timers, p.timeoutId)
             /\ pendingDelete' = {}
             /\ installedAfter' = 0
             /\ owed' = [owed EXCEPT ![restored] = @ - 1]
             /\ undone' = undone \cup {p.timeoutId}
             /\ transcriptions' = IF viewFile = OLD_VIEW /\ mounted
                                  THEN restoreTranscription(list, restored)
                                  ELSE list
             /\ lastOp' = [op |-> "undoDelete", returned |-> UndoResult(pendingDelete),
                            calls |-> calls,
                            pending |-> pendingDelete, after |-> lastScheduled,
                            original |-> IF lastOp.op = "scheduleDelete"
                                         THEN lastOp.before ELSE <<>>]

\* Mutant: undoDelete passes the item it returns to queueDeletion.
UndoCallQueueing ==
    /\ undoDelete
    /\ lastScheduled' = 0
    /\ IF pendingDelete = {}
       THEN UNCHANGED <<deletionInProgress, links, submitLog, commitLog>>
       ELSE queueDeletion(UndoResult(pendingDelete), "undo")
    /\ UNCHANGED <<nextTimeoutId, awaiting, restoreCallbacks, db, viewFile, instance, mounted,
                   fetching, scheduled, cycleLog, latest>>

\* A call of undoDelete() with the store in any state: the function is exported to
\* every component, and nothing in the store requires an item to be pending.
UndoCall ==
    /\ undoDelete
    /\ lastScheduled' = 0
    /\ UNCHANGED <<nextTimeoutId, deletionInProgress, links, awaiting, restoreCallbacks, db,
                   viewFile, instance, mounted, fetching, scheduled, submitLog, commitLog,
                   cycleLog, latest>>

\* handleUndo() of the view: the Undo button of the toast, which the mounted view
\* renders while pendingDelete is set (v-if="pendingDelete").
HandleUndo ==
    /\ mounted
    /\ pendingDelete # {}
    /\ UndoCall

\* Mutant: a second registration under a key is added beside the first one.
registerCallbacksKeepingOld(callbacks, key, onRestore) ==
    callbacks \cup {[key |-> key, handler |-> onRestore]}

\* registerCallbacks(key, onRestore)
registerCallbacks(callbacks, key, onRestore) ==
    {c \in callbacks : c.key # key} \cup {[key |-> key, handler |-> onRestore]}

\* unregisterCallbacks(key)
unregisterCallbacks(callbacks, key) == {c \in callbacks : c.key # key}

\* registerCallbacks(key, onRestore) called by another component of the application.
RegisterCall(key, onRestore) ==
    /\ [key |-> key, handler |-> onRestore] \notin restoreCallbacks
    /\ restoreCallbacks' = registerCallbacks(restoreCallbacks, key, onRestore)
    /\ lastScheduled' = 0
    /\ lastOp' = [op |-> "registerCallbacks"]
    /\ UNCHANGED <<pendingDelete, timers, nextTimeoutId, deletionInProgress, links, awaiting,
                   db, transcriptions, viewFile, instance, mounted, fetching, scheduled,
                   installedAfter, owed, submitLog, commitLog, cycleLog, undone, latest>>

\* unregisterCallbacks(key) called by another component of the application.
UnregisterCall(key) ==
    /\ \E c \in restoreCallbacks : c.key = key
    /\ restoreCallbacks' = unregisterCallbacks(restoreCallbacks, key)
    /\ lastScheduled' = 0
    /\ lastOp' = [op |-> "unregisterCallbacks"]
    /\ UNCHANGED <<pendingDelete, timers, nextTimeoutId, deletionInProgress, links, awaiting,
                   db, transcriptions, viewFile, instance, mounted, fetching, scheduled,
                   installedAfter, owed, submitLog, commitLog, cycleLog, undone, latest>>

\* The view is mounted: a new instance with an empty list, whose onMounted calls
\* fetchHistory and suspends on get_history.
Mount(maxMounts) ==
    /\ ~mounted
    /\ instance < maxMounts
    /\ instance' = instance + 1
    /\ mounted' = TRUE
    /\ transcriptions' = <<>>
    /\ fetching' = fetching \cup {instance + 1}
    /\ lastOp' = [op |-> "mount"]
    /\ UNCHANGED <<pendingDelete, timers, nextTimeoutId, deletionInProgress, links, awaiting,
                   restoreCallbacks, db, viewFile, scheduled, installedAfter, owed, submitLog,
                   commitLog, cycleLog, undone, latest, lastScheduled>>

\* get_history returns to instance i: its list is replaced and onMounted goes on to
\* register restoreTranscription of that instance.
FetchDone(i) ==
    /\ i \in fetching
    /\ fetching' = fetching \ {i}
    /\ transcriptions' = IF mounted /\ i = instance THEN GetHistory(db) ELSE transcriptions
    /\ restoreCallbacks' = registerCallbacks(restoreCallbacks, HISTORY_VIEW, i)
    /\ latest' = i
    /\ lastScheduled' = 0
    /\ lastOp' = [op |-> "fetched"]
    /\ UNCHANGED <<pendingDelete, timers, nextTimeoutId, deletionInProgress, links, awaiting,
                   db, viewFile, instance, mounted, scheduled, installedAfter, owed, submitLog,
                   commitLog, cycleLog, undone>>

\* Mutant: leaving the view also cancels the pending deletion.
UnmountCancelling ==
    /\ mounted
    /\ mounted' = FALSE
    /\ transcriptions' = <<>>
    /\ restoreCallbacks' = unregisterCallbacks(restoreCallbacks, HISTORY_VIEW)
    /\ pendingDelete' = {}
    /\ timers' = {t \in timers : \A p \in pendingDelete : t.timeoutId # p.timeoutId}
    /\ latest' = 0
    /\ lastScheduled' = 0
    /\ lastOp' = [op |-> "unmount"]
    /\ UNCHANGED <<nextTimeoutId, deletionInProgress, links, awaiting, db, viewFile, instance,
                   fetching, scheduled, installedAfter, owed, submitLog, commitLog, cycleLog,
                   undone>>

\* onUnmounted of the current instance.
Unmount ==
    /\ mounted
    /\ mounted' = FALSE
    /\ transcriptions' = <<>>
    /\ restoreCallbacks' = unregisterCallbacks(restoreCallbacks, HISTORY_VIEW)
    /\ latest' = 0
    /\ lastScheduled' = 0
    /\ lastOp' = [op |-> "unmount"]
    /\ UNCHANGED <<pendingDelete, timers, nextTimeoutId, deletionInProgress, links, awaiting,
                   db, viewFile, instance, fetching, scheduled, installedAfter, owed, submitLog,
                   commitLog, cycleLog, undone>>

Next ==
    \/ \E id \in Items : HandleDelete(id, MaxSchedules)
    \/ TimerFires
    \/ \E l \in links, ok \in BOOLEAN : Settle(l, ok)
    \/ HandleUndo
    \/ Mount(MaxMounts)
    \/ \E i \in 1..MaxMounts : FetchDone(i)
    \/ Unmount

Spec == Init /\ [][Next]_vars

\* The store and its queue under a view that stays mounted, with more scheduleDelete
\* calls, so that three deletions can be unsettled in the chain at once.
NextQueue ==
    \/ \E id \in Items : HandleDelete(id, MaxQueueSchedules)
    \/ TimerFires
    \/ \E l \in links, ok \in BOOLEAN : Settle(l, ok)
    \/ HandleUndo
    \/ Mount(1)
    \/ FetchDone(1)

InitQueue == InitWith(1..MaxQueueItem)

SpecQueue == InitQueue /\ [][NextQueue]_vars

\* The system built with the newer view, deeper: a view that is unmounted and mounted
\* again reloads its list, so an item can be scheduled a second time.
NextDeep ==
    \/ \E id \in Items : HandleDelete(id, MaxDeepSchedules)
    \/ TimerFires
    \/ \E l \in links, ok \in BOOLEAN : Settle(l, ok)
    \/ HandleUndo
    \/ Mount(MaxDeepMounts)
    \/ \E i \in 1..MaxDeepMounts : FetchDone(i)
    \/ Unmount

InitDeep == Init /\ viewFile = NEW_VIEW

SpecDeep == InitDeep /\ [][NextDeep]_vars

\* The store called as an API: undoDelete is invoked whatever the state of the slot
\* and of the view, and the view is unmounted and mounted again.
NextApi ==
    \/ \E id \in Items : HandleDelete(id, MaxApiSchedules)
    \/ TimerFires
    \/ \E l \in links, ok \in BOOLEAN : Settle(l, ok)
    \/ UndoCall
    \/ Mount(MaxApiMounts)
    \/ \E i \in 1..MaxApiMounts : FetchDone(i)
    \/ Unmount

InitApi == InitWith(1..MaxApiItem)

SpecApi == InitApi /\ [][NextApi]_vars

\* The store with several components registered: besides the history view, two other
\* components register restore handlers, some of which throw.
OtherKeys == {"viewA", "viewB"}

\* The functions a component registers: one that throws and one that returns.
OtherHandlers(key) == IF key = "viewA" THEN {-1, -2} ELSE {-3, -4}

NextBroadcast ==
    \/ \E id \in Items : HandleDelete(id, MaxBroadcastSchedules)
    \/ TimerFires
    \/ \E l \in links, ok \in BOOLEAN : Settle(l, ok)
    \/ UndoCall
    \/ Mount(1)
    \/ FetchDone(1)
    \/ \E key \in OtherKeys : \E onRestore \in OtherHandlers(key) : RegisterCall(key, onRestore)
    \/ \E key \in OtherKeys : UnregisterCall(key)

InitBroadcast == InitWith(1..MaxBroadcastItem)

SpecBroadcast == InitBroadcast /\ [][NextBroadcast]_vars

\* The store under the newer view, where every delete_transcription call that was
\* invoked settles in the end: the backend answers every IPC call.
NextLive ==
    \/ \E id \in Items : HandleDelete(id, MaxLiveSchedules)
    \/ TimerFires
    \/ \E l \in links, ok \in BOOLEAN : Settle(l, ok)
    \/ HandleUndo
    \/ Mount(1)
    \/ FetchDone(1)
    \/ Unmount

InitLive == InitWith(1..MaxLiveItem) /\ viewFile = NEW_VIEW

SpecLive ==
    /\ InitLive
    /\ [][NextLive]_vars
    /\ WF_vars(\E l \in links, ok \in BOOLEAN : Settle(l, ok))

\* The list operations of the view on their own: a mounted view holding any list
\* get_history can return for a part of the items; items are removed from the list as
\* handleDelete removes them and restored as the restore handler restores them.
InitRestore ==
    /\ pendingDelete = {}
    /\ timers = {}
    /\ nextTimeoutId = 1
    /\ deletionInProgress = 0
    /\ links = {}
    /\ awaiting = {}
    /\ restoreCallbacks = {[key |-> HISTORY_VIEW, handler |-> 1]}
    /\ db = 1..MaxRestoreItem
    /\ transcriptions \in {GetHistory(stored) : stored \in SUBSET (1..MaxRestoreItem)}
    /\ viewFile \in {NEW_VIEW, OLD_VIEW}
    /\ instance = 1
    /\ mounted = TRUE
    /\ fetching = {}
    /\ scheduled = 0
    /\ installedAfter = 0
    /\ owed = [x \in 1..MaxRestoreItem |-> 0]
    /\ submitLog = <<>>
    /\ commitLog = <<>>
    /\ cycleLog = <<>>
    /\ undone = {}
    /\ latest = 1
    /\ lastScheduled = 0
    /\ lastOp = [op |-> "init"]

\* const index = findIndex(t => t.id === id); if (index === -1) return; splice(index, 1)
Remove(id) ==
    LET index == FindIndex(transcriptions, {id})
    IN  /\ index # 0
        /\ transcriptions' = SpliceOut(transcriptions, index)
        /\ lastOp' = [op |-> "remove", transcription |-> id, before |-> transcriptions]
        /\ UNCHANGED <<pendingDelete, timers, nextTimeoutId, deletionInProgress, links,
                       awaiting, restoreCallbacks, db, viewFile, instance, mounted, fetching,
                       scheduled, installedAfter, owed, submitLog, commitLog, cycleLog,
                       undone, latest, lastScheduled>>

\* restoreTranscription(transcription) applied to the list; `original` is the list
\* before the item was removed, when the removal was the step just before.
Restore(id) ==
    /\ Len(transcriptions) < MaxRestoreLen
    /\ transcriptions' = restoreTranscription(transcriptions, id)
    /\ lastOp' = [op |-> "restoreTranscription", transcription |-> id,
                  before |-> transcriptions,
                  undoes |-> lastOp.op = "remove" /\ lastOp.transcription = id,
                  original |-> IF lastOp.op = "remove" THEN lastOp.before ELSE <<>>]
    /\ UNCHANGED <<pendingDelete, timers, nextTimeoutId, deletionInProgress, links,
                   awaiting, restoreCallbacks, db, viewFile, instance, mounted, fetching,
                   scheduled, installedAfter, owed, submitLog, commitLog, cycleLog,
                   undone, latest, lastScheduled>>

NextRestore ==
    \/ \E id \in Items : Remove(id)
    \/ \E id \in Items : Restore(id)

SpecRestore == InitRestore /\ [][NextRestore]_vars

\* The list of a mounted view under removals, restores and "transcription-added"
\* notifications: the backend stores `stored` and the view has loaded its history.
InitNotify ==
    /\ pendingDelete = {}
    /\ timers = {}
    /\ nextTimeoutId = 1
    /\ deletionInProgress = 0
    /\ links = {}
    /\ awaiting = {}
    /\ restoreCallbacks = {[key |-> HISTORY_VIEW, handler |-> 1]}
    /\ db \in SUBSET (1..MaxNotifyItem)
    /\ transcriptions = GetHistory(db)
    /\ viewFile = NEW_VIEW
    /\ instance = 1
    /\ mounted = TRUE
    /\ fetching = {}
    /\ scheduled = 0
    /\ installedAfter = 0
    /\ owed = [x \in 1..MaxNotifyItem |-> 0]
    /\ submitLog = <<>>
    /\ commitLog = <<>>
    /\ cycleLog = <<>>
    /\ undone = {}
    /\ latest = 1
    /\ lastScheduled = 0
    /\ lastOp = [op |-> "init"]

\* Mutant: the new item is put at the end of the list.
UnshiftAtEnd(list, x) == Append(list, x)

\* list.unshift(x)
Unshift(list, x) == <<x>> \o list

\* The backend stores a new transcription x, newer than everything it stores, and
\* emits "transcription-added"; the listener of the view (lines 118-120) prepends it.
TranscriptionAdded(x) ==
    /\ mounted
    /\ x \notin db
    /\ \A y \in db : SortsAfter(y, x)
    /\ Len(transcriptions) < MaxNotifyLen
    /\ db' = db \cup {x}
    /\ transcriptions' = Unshift(transcriptions, x)
    /\ lastOp' = [op |-> "transcription-added", transcription |-> x,
                  before |-> transcriptions, after |-> lastOp.op]
    /\ UNCHANGED <<pendingDelete, timers, nextTimeoutId, deletionInProgress, links,
                   awaiting, restoreCallbacks, viewFile, instance, mounted, fetching,
                   scheduled, installedAfter, owed, submitLog, commitLog, cycleLog,
                   undone, latest, lastScheduled>>

\* The restore handler is called with an item the backend stores: only items that
\* were in the list are ever handed to scheduleDelete.
RestoreStored(id) == id \in db /\ Len(transcriptions) < MaxNotifyLen /\ Restore(id)

NextNotify ==
    \/ \E id \in Items : Remove(id)
    \/ \E id \in Items : RestoreStored(id)
    \/ \E x \in Items : TranscriptionAdded(x)

SpecNotify == InitNotify /\ [][NextNotify]_vars

\* ------------------------------------------------------------------ claims --
\* A scheduleDelete call that had been suspended at its await installed its item
\* in the last step.
ResumedInstall == lastOp.op = "settle" /\ lastOp.resumed # {}

\* Nothing is left to happen in the store: no pending item, no armed timer, no
\* suspended scheduleDelete, no unsettled deletion.
Quiescent == pendingDelete = {} /\ timers = {} /\ awaiting = {} /\ links = {}

C2_Serialized == awaiting # {} => pendingDelete = {}

\* C3 (as claimed): once nothing is left to happen, every scheduleDelete call that was
\* not undone has had its item submitted for commit, exactly once.
C3_EveryScheduledCommitted == Quiescent => \A x \in Items : owed[x] = 0

\* C4 (as claimed): at most one grace timer is armed, and an armed timer is the timer
\* of the item in the pending slot.
C4_ArmedTimerIsPending ==
    /\ Cardinality(timers) <= 1
    /\ \A t \in timers : \E p \in pendingDelete :
        p.timeoutId = t.timeoutId /\ p.transcription = t.transcription

\* C5 (as claimed): when the commit queued by a timer expiry fails, every registered
\* restore handler is invoked with the item, exactly once.
C5_FailedTimeoutRestores ==
    (lastOp.op = "settle" /\ lastOp.by = "timeout" /\ ~lastOp.ok) =>
        /\ Len(lastOp.calls) = Cardinality(lastOp.registered)
        /\ \A c \in lastOp.registered : \E i \in 1..Len(lastOp.calls) :
            lastOp.calls[i] = [handler |-> c.handler, transcription |-> lastOp.id]

C7_CommitOnlyByOwnTimer ==
    /\ \A c \in awaiting : \E l \in links : l.ticket = c.ticket
    /\ ResumedInstall => \A c \in lastOp.resumed :
        /\ \E i \in DOMAIN commitLog : commitLog[i].ticket = c.ticket
        /\ \A l \in links : l.ticket # c.ticket
    /\ (lastOp.op = "timeout" /\ lastOp.queued /\ lastOp.after # 0) =>
        \A p \in lastOp.pending : p.timeoutId = lastOp.timeoutId

\* C8: delete_transcription is invoked in the order of submission: the k-th call is
\* for the k-th id passed to queueDeletion.
C8_CommitsInSubmissionOrder ==
    /\ Len(commitLog) <= Len(submitLog)
    /\ \A i \in DOMAIN commitLog :
        commitLog[i].ticket = i /\ commitLog[i].id = submitLog[i]

\* C8 witness: three deletions were submitted, by superseding and by timer expiry; the
\* second was invoked when the first settled, while the third still waits.
C8_Witness ==
    /\ lastOp.op = "settle"
    /\ Len(submitLog) = 3 /\ Len(commitLog) = 2
    /\ \E l \in links : ~l.invoked /\ l.by = "timeout"
    /\ \E l \in links : l.invoked /\ l.by = "superseded"

\* C9: at most one delete_transcription call is in flight, and it is the oldest
\* unsettled deletion: every deletion submitted before it has settled.
C9_OneCommitInFlight ==
    /\ Cardinality({l \in links : l.invoked}) <= 1
    /\ \A l \in links : l.invoked => \A m \in links : m.ticket >= l.ticket

\* C9 witness: a deletion waits in the chain while an earlier one is in flight.
C9_Witness == \E l, m \in links : l.invoked /\ ~m.invoked /\ l.ticket < m.ticket

\* C10: a failing commit does not stop the queue. No submitted deletion is dropped
\* (each has been invoked or still waits), a waiting deletion always has an earlier
\* one in flight, and when a commit fails the deletion submitted after it is invoked.
C10_QueueSurvivesFailure ==
    /\ Len(commitLog) + Cardinality({l \in links : ~l.invoked}) = Len(submitLog)
    /\ \A m \in links : ~m.invoked => \E l \in links : l.invoked /\ l.ticket < m.ticket
    /\ (lastOp.op = "settle" /\ ~lastOp.ok /\ Len(submitLog) > lastOp.ticket) =>
        /\ Len(commitLog) > lastOp.ticket
        /\ commitLog[lastOp.ticket + 1].id = submitLog[lastOp.ticket + 1]

\* C10 witness: a commit failed and the deletion submitted after it is now in flight,
\* with a third one waiting behind it.
C10_Witness ==
    /\ lastOp.op = "settle" /\ ~lastOp.ok
    /\ \E l \in links : l.invoked /\ l.ticket = lastOp.ticket + 1
    /\ \E l \in links : ~l.invoked

\* C11: within one scheduling cycle (one scheduleDelete call) the item's id is passed
\* to queueDeletion at most once, so never both by the timer and by being superseded;
\* each submission invokes delete_transcription at most once, also after a failure;
\* and an id is never submitted more often than it was scheduled and not undone.
C11_OneSubmissionPerCycle ==
    /\ Len(cycleLog) = Len(submitLog)
    /\ \A i, j \in DOMAIN cycleLog : cycleLog[i] = cycleLog[j] => i = j
    /\ \A i, j \in DOMAIN commitLog : commitLog[i].ticket = commitLog[j].ticket => i = j
    /\ \A x \in Items : owed[x] >= 0

\* C11 witness: the commit of a superseded item failed; the item that superseded it
\* was submitted in turn, and a later scheduleDelete call has completed since.
C11_Witness ==
    /\ lastOp.op = "settle" /\ ~lastOp.ok /\ lastOp.by = "superseded"
    /\ lastOp.ticket = 1
    /\ Len(cycleLog) = 2
    /\ pendingDelete # {}

\* The scheduling cycles whose item has been passed to queueDeletion.
Submitted == {cycleLog[i] : i \in DOMAIN cycleLog}

\* C12: no scheduling cycle is both undone and submitted for commit: the slot never
\* holds a cycle that has been submitted, no timer of an undone cycle stays armed, and
\* undoDelete returns the item that was in the slot when it was called, nothing else.
C12_UndoneNeverSubmitted ==
    /\ undone \cap Submitted = {}
    /\ \A p \in pendingDelete : p.timeoutId \notin Submitted
    /\ (lastOp.op = "undoDelete" /\ lastOp.returned # 0) =>
        /\ \E p \in lastOp.pending : p.transcription = lastOp.returned
        /\ \A p \in lastOp.pending : p.timeoutId \in undone

\* C12 witness: undoDelete returned B, the item whose scheduleDelete had superseded A
\* and submitted A for commit.
C12_Witness ==
    /\ lastOp.op = "undoDelete" /\ lastOp.returned # 0
    /\ Len(cycleLog) = 1 /\ submitLog[1] # lastOp.returned
    /\ Cardinality(undone) = 1

\* C13 (as claimed): when undoDelete is the first store operation invoked after
\* scheduleDelete(X), and no timer of X has fired, it returns X and every registered
\* handler is called with X.
C13_UndoReturnsLastScheduled ==
    (lastOp.op = "undoDelete" /\ lastOp.after # 0) =>
        /\ lastOp.returned = lastOp.after
        /\ \A c \in restoreCallbacks : \E i \in 1..Len(lastOp.calls) :
            lastOp.calls[i] = [handler |-> c.handler, transcription |-> lastOp.after]

\* C14: undoDelete with X pending empties the slot, returns X, cancels X's timer (a
\* cancelled timer is never armed again and never fires, so it causes no commit) and
\* calls every registered handler exactly once with X.
C14_UndoCancelsAndBroadcasts ==
    /\ \A t \in timers : t.timeoutId \notin undone
    /\ lastOp.op = "timeout" => lastOp.timeoutId \notin undone
    /\ (lastOp.op = "undoDelete" /\ lastOp.pending # {}) =>
        /\ pendingDelete = {}
        /\ \A p \in lastOp.pending :
            /\ lastOp.returned = p.transcription
            /\ p.timeoutId \in undone
        /\ Len(lastOp.calls) = Cardinality(restoreCallbacks)
        /\ \A c \in restoreCallbacks :
            Cardinality({i \in 1..Len(lastOp.calls) :
                lastOp.calls[i] = [handler |-> c.handler,
                                   transcription |-> lastOp.returned]}) = 1

\* C14 witness: undoDelete has just returned the pending item, for the second time in
\* this behaviour, to the one registered handler; no timer is left armed.
C14_Witness ==
    /\ lastOp.op = "undoDelete" /\ lastOp.pending # {}
    /\ Len(lastOp.calls) = 1
    /\ Cardinality(undone) = 2
    /\ timers = {}

\* C15: undoDelete with nothing pending returns null, calls no handler, submits
\* nothing to the deletion queue and leaves the state of the store and of the view's
\* list as it was.
C15_UndoWithNothingPending ==
    [][(lastOp'.op = "undoDelete" /\ pendingDelete = {}) =>
        /\ lastOp'.returned = 0
        /\ lastOp'.calls = <<>>
        /\ UNCHANGED <<pendingDelete, timers, nextTimeoutId, deletionInProgress, links,
                       awaiting, restoreCallbacks, submitLog, commitLog, db,
                       transcriptions>>]_vars

\* C15 witness: undoDelete was called with an empty slot while a superseding
\* scheduleDelete was suspended and a handler was registered.
C15_Witness ==
    /\ lastOp.op = "undoDelete" /\ lastOp.pending = {}
    /\ lastOp.returned = 0
    /\ awaiting # {} /\ restoreCallbacks # {}
    /\ pendingDelete = {}

\* C16: undoDelete never touches the deletion queue: the chain of deletions, the ids
\* passed to queueDeletion and the delete_transcription calls made are the same after
\* the call as before it, whether or not an item was pending.
C16_UndoLeavesQueue ==
    [][lastOp'.op = "undoDelete" =>
        UNCHANGED <<deletionInProgress, links, submitLog, commitLog, cycleLog>>]_vars

\* C16 witness: undoDelete returned the pending item while the deletion of an
\* earlier item was still unsettled in the queue.
C16_Witness ==
    /\ lastOp.op = "undoDelete" /\ lastOp.returned # 0
    /\ links # {}
    /\ submitLog # <<>>

\* C17 (as claimed): every change of the slot is Idle to Pending(X) by
\* scheduleDelete(X) (at once, or when it completes after its await); Pending(X) to
\* Idle by undoDelete, by the expiry of X's own timer, or by a scheduleDelete that
\* queues X for commit; Pending(X) to Pending(Y) by a scheduleDelete(Y) that has
\* committed X first.
C17_SlotTransitions ==
    [][pendingDelete' # pendingDelete =>
        \/ /\ pendingDelete = {}
           /\ \/ /\ lastOp'.op = "scheduleDelete"
                 /\ \A q \in pendingDelete' : q.transcription = lastOp'.transcription
              \/ /\ lastOp'.op = "settle"
                 /\ \A q \in pendingDelete' :
                     \E c \in lastOp'.resumed : c.transcription = q.transcription
        \/ /\ pendingDelete # {}
           /\ pendingDelete' = {}
           /\ \/ lastOp'.op = "undoDelete"
              \/ /\ lastOp'.op = "timeout"
                 /\ \A p \in pendingDelete : p.timeoutId = lastOp'.timeoutId
              \/ /\ lastOp'.op = "scheduleDelete"
                 /\ \A p \in pendingDelete :
                     /\ lastOp'.superseded = p.transcription
                     /\ submitLog' = Append(submitLog, p.transcription)
        \/ /\ pendingDelete # {}
           /\ pendingDelete' # {}
           /\ lastOp'.op = "settle"
           /\ \A p \in pendingDelete : \A q \in pendingDelete' :
               \E c \in lastOp'.resumed :
                   /\ c.transcription = q.transcription
                   /\ c.previousId = p.transcription
                   /\ c.cleared = p.timeoutId]_vars

\* C18: when the timer of the pending item X fires, X's id is passed to queueDeletion
\* (the newest deletion of the chain is X's) and the slot is emptied at once; the later
\* settlement of that deletion, success or failure, does not fill the slot again.
C18_ExpirySubmitsAndClears ==
    /\ (lastOp.op = "timeout" /\ \E p \in lastOp.pending : p.timeoutId = lastOp.timeoutId) =>
        /\ lastOp.queued
        /\ pendingDelete = {}
        /\ submitLog # <<>> /\ submitLog[Len(submitLog)] = lastOp.transcription
        /\ \E l \in links :
            l.ticket = deletionInProgress /\ l.id = lastOp.transcription /\ l.by = "timeout"
    /\ (lastOp.op = "settle" /\ lastOp.by = "timeout") => lastOp.resumed = {}

\* C18 witness: the commit queued by a timer expiry has failed, and the slot, emptied
\* at the expiry, is still empty.
C18_Witness ==
    /\ lastOp.op = "settle" /\ lastOp.by = "timeout" /\ ~lastOp.ok
    /\ pendingDelete = {}
    /\ timers = {}

\* C19: registerCallbacks (reached when a mounted view has fetched its list) and
\* unregisterCallbacks (reached when the view is left) change the registry only: the
\* slot, the armed timers and the deletion queue are the same after the call. So an
\* item in the slot keeps its armed timer whether or not a handler is registered.
C19_RegistryOnly ==
    /\ [][lastOp'.op \in {"fetched", "unmount"} =>
            UNCHANGED <<pendingDelete, timers, nextTimeoutId, deletionInProgress, links,
                        awaiting, submitLog, commitLog>>]_vars
    /\ [](\A p \in pendingDelete :
            [timeoutId |-> p.timeoutId, transcription |-> p.transcription] \in timers)

\* C19 witness: the view was left while an item was pending, and with no handler
\* registered undoDelete has still returned that item.
C19_Witness ==
    /\ lastOp.op = "undoDelete" /\ lastOp.returned # 0
    /\ ~mounted /\ restoreCallbacks = {}
    /\ instance = 1 /\ fetching = {}

\* C20: a restore broadcast calls exactly the handlers registered at that moment, each
\* with the same item: the registry holds the handler of the last registerCallbacks
\* call of the key and nothing else, nothing once the key was unregistered; a handler
\* that was unregistered or replaced is never called; and undoDelete returns the
\* pending item also when no handler is registered.
C20_BroadcastToRegistered ==
    /\ restoreCallbacks =
        IF latest = 0 THEN {} ELSE {[key |-> HISTORY_VIEW, handler |-> latest]}
    /\ lastOp.op \in {"undoDelete", "settle"} =>
        \A i \in 1..Len(lastOp.calls) : lastOp.calls[i].handler = latest /\ latest # 0
    /\ (lastOp.op = "undoDelete" /\ lastOp.pending # {}) =>
        /\ \A p \in lastOp.pending : lastOp.returned = p.transcription
        /\ lastOp.calls = IF latest = 0 THEN <<>>
                          ELSE <<[handler |-> latest, transcription |-> lastOp.returned]>>

\* C20 witness: the handler of the first instance of the view was registered and
\* then unregistered or replaced by that of the second instance; undoDelete called
\* the second handler only.
C20_Witness ==
    /\ lastOp.op = "undoDelete" /\ lastOp.returned # 0
    /\ latest = 2 /\ fetching = {}
    /\ Len(lastOp.calls) = 1 /\ lastOp.calls[1].handler = 2

\* C21: a handler that throws during the broadcast of undoDelete does not keep the
\* other registered handlers from being called with the item: every registered handler
\* is called exactly once; undoDelete returns the item and the slot is empty.
C21_ThrowingHandlerIsolated ==
    (lastOp.op = "undoDelete" /\ lastOp.pending # {}) =>
        /\ Len(lastOp.calls) = Cardinality(restoreCallbacks)
        /\ \A c \in restoreCallbacks :
            Cardinality({i \in 1..Len(lastOp.calls) :
                lastOp.calls[i] = [handler |-> c.handler,
                                   transcription |-> lastOp.returned]}) = 1
        /\ \A p \in lastOp.pending : lastOp.returned = p.transcription
        /\ pendingDelete = {}

\* C21 witness: the first handler the broadcast called threw, and two more handlers
\* were called after it, the view's among them.
C21_Witness ==
    /\ lastOp.op = "undoDelete" /\ lastOp.returned # 0
    /\ Len(lastOp.calls) = 3
    /\ CallOutcome(lastOp.calls[1].handler) = "threw"
    /\ \E i \in 2..3 : lastOp.calls[i].handler = instance

\* C22: when the commit of a superseded item fails, no restore handler is called, the
\* scheduleDelete call that awaited the commit resumes instead of failing, and it
\* installs its item in the slot with a newly armed timer.
C22_SupersededFailureLoggedOnly ==
    (lastOp.op = "settle" /\ lastOp.by = "superseded" /\ ~lastOp.ok) =>
        /\ lastOp.calls = <<>>
        /\ \A c \in awaiting : c.ticket # lastOp.ticket
        /\ Cardinality(lastOp.resumed) = 1
        /\ \A c \in lastOp.resumed :
            /\ c.previousId = lastOp.id
            /\ pendingDelete = {[transcription |-> c.transcription,
                                 timeoutId |-> nextTimeoutId - 1]}
            /\ [timeoutId |-> nextTimeoutId - 1, transcription |-> c.transcription] \in timers

\* C22 witness: the commit of the superseded item 1 failed with the view's handler
\* registered; item 2, which superseded it, is now pending and item 1 is not listed.
C22_Witness ==
    /\ lastOp.op = "settle" /\ lastOp.by = "superseded" /\ ~lastOp.ok
    /\ lastOp.id = 1 /\ restoreCallbacks # {} /\ mounted
    /\ \E p \in pendingDelete : p.transcription = 2
    /\ \A i \in 1..Len(transcriptions) : transcriptions[i] # 1

\* C23: no failure escapes the store. Whatever the outcome of a commit, no
\* scheduleDelete call is rejected at its await, and a suspended call always has the
\* deletion it waits for in the chain, so it completes when that commit settles.
\* Whatever the handlers do, undoDelete returns null or the item and its broadcast
\* runs to the end, as does a broadcast made when a commit settles. And the store
\* stays usable: a scheduleDelete called with the slot empty installs its item.
C23_NoFailureEscapes ==
    /\ [](lastOp.op = "settle" =>
            /\ lastOp.thrown = {}
            /\ \A c \in awaiting : c.ticket # lastOp.ticket
            /\ Len(lastOp.calls) \in {0, Cardinality(restoreCallbacks)})
    /\ [](\A c \in awaiting : \E l \in links : l.ticket = c.ticket)
    /\ [](lastOp.op = "undoDelete" =>
            /\ lastOp.returned >= 0
            /\ Len(lastOp.calls) =
                IF lastOp.pending = {} THEN 0 ELSE Cardinality(restoreCallbacks))
    /\ [][(lastOp'.op = "scheduleDelete" /\ pendingDelete = {}) =>
            pendingDelete' = {[transcription |-> lastOp'.transcription,
                               timeoutId |-> nextTimeoutId]}]_vars

\* C23 witness: the commit of item 1 failed; item 2 was scheduled afterwards and
\* undone, the first handler of the broadcast throwing.
C23_Witness ==
    /\ lastOp.op = "undoDelete" /\ lastOp.returned = 2
    /\ Len(lastOp.calls) >= 2 /\ CallOutcome(lastOp.calls[1].handler) = "threw"
    /\ submitLog = <<1>> /\ links = {} /\ 1 \in db

\* C24: once an id has been passed to queueDeletion, delete_transcription is
\* eventually invoked for it, provided the commits invoked before it settle: the k-th
\* submission leads to the k-th invocation, for the same id, whatever is called in
\* between; and a submitted deletion is never dropped from the chain uninvoked.
C24_SubmittedIsInvoked ==
    /\ \A k \in 1..MaxLiveSchedules :
        (Len(submitLog) >= k) ~> (Len(commitLog) >= k /\ commitLog[k].id = submitLog[k])
    /\ [](Len(submitLog) = Len(commitLog) + Cardinality({l \in links : ~l.invoked}))

\* C24 witness: the view was left, unregistering its handler, while a submitted
\* deletion was waiting in the chain behind a commit in flight.
C24_Witness ==
    /\ lastOp.op = "unmount"
    /\ \E l \in links : ~l.invoked
    /\ \E l \in links : l.invoked

\* (created_at, id) of a is strictly less than that of b.
TupleLess(a, b) ==
    \/ CreatedAt(a) < CreatedAt(b)
    \/ CreatedAt(a) = CreatedAt(b) /\ a < b

\* The list is sorted descending by (created_at, id); strictly: without duplicates.
Descending(list) == \A i \in 1..(Len(list) - 1) : ~TupleLess(list[i], list[i + 1])

StrictlyDescending(list) == \A i \in 1..(Len(list) - 1) : TupleLess(list[i + 1], list[i])

\* C25: restoreTranscription(X) on a list sorted descending by (created_at, id)
\* inserts X immediately before the first element whose tuple is strictly less than
\* X's, or appends X when there is none; the other elements keep their places
\* relative to each other.
C25_RestoreInsertsInOrder ==
    (lastOp.op = "restoreTranscription" /\ Descending(lastOp.before)) =>
        LET before == lastOp.before
            x == lastOp.transcription
        IN  \E j \in 1..(Len(before) + 1) :
                /\ \A i \in 1..(j - 1) : ~TupleLess(before[i], x)
                /\ j <= Len(before) => TupleLess(before[j], x)
                /\ transcriptions = SubSeq(before, 1, j - 1) \o <<x>>
                                        \o SubSeq(before, j, Len(before))

\* C25 witness: an item was restored between two others, next to the item that has
\* the same timestamp.
C25_Witness ==
    /\ lastOp.op = "restoreTranscription" /\ lastOp.transcription = 3
    /\ lastOp.before = <<4, 2, 1>>
    /\ transcriptions = <<4, 3, 2, 1>>

\* C26: removing an element X from a list sorted strictly descending by
\* (created_at, id) and then calling restoreTranscription(X), the list not changing
\* in between, gives the original list back.
C26_RemoveThenRestoreIsIdentity ==
    (lastOp.op = "restoreTranscription" /\ lastOp.undoes
            /\ StrictlyDescending(lastOp.original)) =>
        transcriptions = lastOp.original

\* C26 witness: an item of the middle of the list, which shares its timestamp with
\* its neighbour, was removed and restored.
C26_Witness ==
    /\ lastOp.op = "restoreTranscription" /\ lastOp.undoes
    /\ lastOp.original = <<4, 3, 2, 1>>
    /\ lastOp.transcription = 3
    /\ lastOp.before = <<4, 2, 1>>

\* C27 (as claimed): in a mounted, registered view whose list is sorted descending,
\* handleDelete(X) followed at once by handleUndo leaves the list as it was before the
\* deletion, X being in it once, at its place.
C27_DeleteUndoRestoresList ==
    (/\ lastOp.op = "undoDelete" /\ lastOp.returned # 0
     /\ lastOp.original # <<>> /\ StrictlyDescending(lastOp.original)
     /\ mounted /\ latest = instance) =>
        transcriptions = lastOp.original

\* C28 (as claimed): while an item is held in the pending slot it is absent from the
\* list of the mounted view, also after the view was unmounted and mounted again and
\* reloaded its list through get_history.
C28_PendingNotListed ==
    mounted => \A p \in pendingDelete :
                  FindIndex(transcriptions, {p.transcription}) = 0

\* C29 (as claimed): the list of the view never holds two entries with the same id,
\* whatever deletes, undos, timer expiries, unmounts and remounts (with reload) happened.
C29_NoDuplicateIds ==
    \A i, j \in 1..Len(transcriptions) :
        i # j => transcriptions[i] # transcriptions[j]

\* C30: when a grace timer fires for an item that is not the one held in the pending
\* slot (the slot is empty or holds another id), the callback submits nothing to the
\* deletion queue, calls no restore handler and leaves the pending slot as it is.
C30_StaleTimerDoesNothing ==
    [][(/\ lastOp'.op = "timeout"
        /\ \E t \in timers \ timers' : t.timeoutId = lastOp'.timeoutId
        /\ \A p \in pendingDelete : p.transcription # lastOp'.transcription) =>
            /\ links' = links
            /\ deletionInProgress' = deletionInProgress
            /\ submitLog' = submitLog
            /\ transcriptions' = transcriptions
            /\ pendingDelete' = pendingDelete]_vars

\* A timer fired while the slot held another item.
C30_Witness ==
    /\ lastOp.op = "timeout"
    /\ ~lastOp.queued
    /\ lastOp.pending # {}
    /\ pendingDelete = lastOp.pending

\* C31 (as claimed): a restore handler of the view is registered only while its
\* instance is mounted; once onUnmounted has run for an instance, no handler of that
\* instance is or becomes registered, also when the unmount happened while onMounted
\* was still awaiting fetchHistory.
C31_RegisteredOnlyWhileMounted ==
    \A c \in restoreCallbacks :
        c.key = HISTORY_VIEW => (mounted /\ c.handler = instance)

\* C32: the list of a view stays sorted descending by (created_at, id) (entries of
\* the same id next to each other allowed) under handleDelete removals, restores and
\* "transcription-added" prepends, the initial list being sorted and every notified
\* item being newer than every item that ever was in the list.
C32_ListStaysSorted == Descending(transcriptions)

\* C32 witness: an item was removed and restored, then a new item was announced and
\* prepended; the list holds the four items in order.
C32_Witness ==
    /\ lastOp.op = "transcription-added"
    /\ lastOp.after = "restoreTranscription"
    /\ lastOp.transcription = 4
    /\ transcriptions = <<4, 3, 2, 1>>

\* C33: a deletion whose commit succeeds, queued by a timer expiry or by a superseding
\* scheduleDelete, never has a restore handler called with its item; handlers are
\* called with an item X only by an undoDelete that returns X or after a failed commit
\* of X that a timer expiry queued, and the list of the view gains entries in no other
\* step but the reload of fetchHistory.
C33_RestoreOnlyOnUndoOrFailure ==
    /\ []((lastOp.op = "settle" /\ lastOp.ok) => lastOp.calls = <<>>)
    /\ []((lastOp.op = "settle" /\ lastOp.calls # <<>>) =>
            /\ ~lastOp.ok
            /\ lastOp.by = "timeout"
            /\ \A i \in 1..Len(lastOp.calls) : lastOp.calls[i].transcription = lastOp.id)
    /\ []((lastOp.op = "undoDelete" /\ lastOp.calls # <<>>) =>
            /\ lastOp.returned # 0
            /\ \A i \in 1..Len(lastOp.calls) :
                    lastOp.calls[i].transcription = lastOp.returned)
    /\ [][Len(transcriptions') > Len(transcriptions) =>
            \/ lastOp'.op = "fetched"
            \/ lastOp'.op = "undoDelete" /\ lastOp'.returned # 0
            \/ lastOp'.op = "settle" /\ ~lastOp'.ok /\ lastOp'.by = "timeout"]_vars

\* C33 witness: the commit a timer expiry queued succeeded while handlers were
\* registered, and none of them was called.
C33_Witness ==
    /\ lastOp.op = "settle"
    /\ lastOp.ok
    /\ lastOp.by = "timeout"
    /\ Cardinality(lastOp.registered) >= 2
    /\ lastOp.calls = <<>>

====
